---- MODULE Spec2Model ----
(***************************************************************************)
(* Model of the irrops tower engine (src/src/schedule/schedule.rs):        *)
(* Schedule::new, assign, apply_delay and apply_curfew over a fleet of     *)
(* aircraft, a set of airports and a vector of flights.                    *)
(*                                                                         *)
(* Identifiers are small naturals; the order of the naturals stands for    *)
(* the lexicographic order of the Arc<str> ids, and 0 stands for None.     *)
(***************************************************************************)
EXTENDS Integers, Sequences, FiniteSets, TLC

VARIABLES
    aircraft,       \* Schedule.aircraft      : aircraft id -> Aircraft
    airports,       \* Schedule.airports      : airport id  -> Airport
    flights,        \* Schedule.flights       : Seq(Flight)
    flights_index,  \* Schedule.flights_index : flight id -> position in flights
    last_report,    \* Schedule.last_report   : NoReport or a DisruptionReport
    op,             \* the last public call and its arguments
    pre,            \* flights as they were when the last call started
    pre_airports,   \* airports as they were when the last call started
    trace,          \* per-flight record of what the last call decided
    loaded,         \* flights as Schedule::new left them
    nops            \* number of public calls made so far

vars == <<aircraft, airports, flights, flights_index, last_report,
          op, pre, pre_airports, trace, loaded, nops>>

-----------------------------------------------------------------------------
(* Bounds and program constants *)

MaxOps == 2

\* number of calls followed from the rotation loads in SpecDeep
MaxDeepOps == 3

MAX_DELAY == 2000

None == 0

-----------------------------------------------------------------------------
(* flight.rs: FlightStatus and UnscheduledReason *)

Reasons == {"Waiting", "MaxDelayExceeded", "AirportCurfew",
            "AircraftMaintenance", "BrokenChain"}

Unscheduled(reason) == [kind |-> "Unscheduled", reason |-> reason, minutes |-> 0]

Scheduled == [kind |-> "Scheduled", reason |-> "-", minutes |-> 0]

Delayed(minutes) == [kind |-> "Delayed", reason |-> "-", minutes |-> minutes]

is_unscheduled(status) == status.kind = "Unscheduled"

Flight(id, ac, org, dst, dep, arr, status) ==
    [id |-> id, aircraft_id |-> ac, origin_id |-> org, destination_id |-> dst,
     departure_time |-> dep, arrival_time |-> arr, status |-> status]

Availability(from, to, loc) == [from |-> from, to |-> to, location_id |-> loc]

Curfew(from, to) == [from |-> from, to |-> to]

-----------------------------------------------------------------------------
(* time.rs *)

is_overlapping(time, window) == time[1] < window[2] /\ time[2] > window[1]

Max(a, b) == IF a >= b THEN a ELSE b

-----------------------------------------------------------------------------
(* Sequence helpers *)

Range(s) == {s[i] : i \in DOMAIN s}

\* Vec::sort on a bucket of aircraft ids (ascending)
RECURSIVE InsertId(_, _)
InsertId(s, x) ==
    IF s = <<>> THEN <<x>>
    ELSE IF x < Head(s) THEN <<x>> \o s
    ELSE <<Head(s)>> \o InsertId(Tail(s), x)

RECURSIVE SortIds(_)
SortIds(s) == IF s = <<>> THEN <<>> ELSE InsertId(SortIds(Tail(s)), Head(s))

\* stable insertion of a flight behind every flight that departs no later
RECURSIVE InsertByDeparture(_, _)
InsertByDeparture(s, f) ==
    IF s = <<>> THEN <<f>>
    ELSE IF f.departure_time < Head(s).departure_time THEN <<f>> \o s
    ELSE <<Head(s)>> \o InsertByDeparture(Tail(s), f)

\* flights.sort_by_key(|f| f.departure_time), a stable sort
RECURSIVE SortByDeparture(_)
SortByDeparture(s) ==
    IF s = <<>> THEN <<>>
    ELSE InsertByDeparture(SortByDeparture(SubSeq(s, 1, Len(s) - 1)), s[Len(s)])

\* the id -> index map collected from the enumerated vector: a later
\* flight with the same id replaces the earlier entry
BuildIndex(fs) ==
    [id \in {fs[i].id : i \in DOMAIN fs} |->
        CHOOSE i \in DOMAIN fs :
            /\ fs[i].id = id
            /\ \A j \in DOMAIN fs : fs[j].id = id => j <= i]

-----------------------------------------------------------------------------
(* Helpers of Schedule *)

\* mutant of is_at_wrong_airport: a window that starts at the arrival itself
\* is not counted
is_at_wrong_airport_after_arrival(disruptions, departure_time, ready_at) ==
    IF ready_at = <<>> THEN FALSE
    ELSE \E k \in DOMAIN disruptions :
            /\ disruptions[k].from > ready_at[2]
            /\ disruptions[k].to <= departure_time
            /\ disruptions[k].location_id # None
            /\ disruptions[k].location_id # ready_at[1]

is_at_wrong_airport(disruptions, departure_time, ready_at) ==
    IF ready_at = <<>> THEN FALSE
    ELSE \E k \in DOMAIN disruptions :
            /\ disruptions[k].from >= ready_at[2]
            /\ disruptions[k].to <= departure_time
            /\ disruptions[k].location_id # None
            /\ disruptions[k].location_id # ready_at[1]

CurfewCovers(aps, ap, t) ==
    IF ap \in DOMAIN aps
    THEN \E k \in DOMAIN aps[ap].disruptions :
            aps[ap].disruptions[k].from <= t /\ aps[ap].disruptions[k].to >= t
    ELSE FALSE

is_airport_closed(aps, flight, dep_time, arr_time) ==
    \/ CurfewCovers(aps, flight.origin_id, dep_time)
    \/ CurfewCovers(aps, flight.destination_id, arr_time)

\* mutant of violates_aircraft_maintenance: a window counts only when it
\* holds the departure
violates_aircraft_maintenance_at_departure(disruptions, dep, arr) ==
    \E k \in DOMAIN disruptions :
        disruptions[k].from <= dep /\ dep < disruptions[k].to

violates_aircraft_maintenance(disruptions, dep, arr) ==
    \E k \in DOMAIN disruptions :
        is_overlapping(<<dep, arr>>, <<disruptions[k].from, disruptions[k].to>>)

Mtt(aps, ap) == IF ap \in DOMAIN aps THEN aps[ap].mtt ELSE 0

get_ready_time(aps, arrival_time, airport_id) == arrival_time + Mtt(aps, airport_id)

\* mutant of compute_shifted_times: the turnaround is left out of ready_at
compute_shifted_times_no_mtt(aps, flight, prev_arrival) ==
    LET len == flight.arrival_time - flight.departure_time
        ready_at == prev_arrival
        dep_time == Max(ready_at, flight.departure_time)
    IN  [dep_time |-> dep_time,
         arr_time |-> dep_time + len,
         is_overlapping |-> flight.departure_time < ready_at]

\* mutant of compute_shifted_times: a flight that departs at or after
\* ready_at is reported as displaced too
compute_shifted_times_always_displaced(aps, flight, prev_arrival) ==
    LET len == flight.arrival_time - flight.departure_time
        ready_at == get_ready_time(aps, prev_arrival, flight.origin_id)
        dep_time == Max(ready_at, flight.departure_time)
    IN  [dep_time |-> dep_time,
         arr_time |-> dep_time + len,
         is_overlapping |-> TRUE]

\* mutant of compute_shifted_times: the arrival is not moved with the
\* departure
compute_shifted_times_fixed_arrival(aps, flight, prev_arrival) ==
    LET ready_at == get_ready_time(aps, prev_arrival, flight.origin_id)
        dep_time == Max(ready_at, flight.departure_time)
    IN  [dep_time |-> dep_time,
         arr_time |-> Max(dep_time, flight.arrival_time),
         is_overlapping |-> flight.departure_time < ready_at]

compute_shifted_times(aps, flight, prev_arrival) ==
    LET len == flight.arrival_time - flight.departure_time
        ready_at == get_ready_time(aps, prev_arrival, flight.origin_id)
        dep_time == Max(ready_at, flight.departure_time)
    IN  [dep_time |-> dep_time,
         arr_time |-> dep_time + len,
         is_overlapping |-> flight.departure_time < ready_at]

-----------------------------------------------------------------------------
(* Schedule::new *)

New(acs, aps, fs) ==
    LET sorted == SortByDeparture(fs)
    IN  [aircraft |-> acs, airports |-> aps, flights |-> sorted,
         flights_index |-> BuildIndex(sorted)]

-----------------------------------------------------------------------------
(* Schedule::assign *)

\* current_locations: every aircraft starts at its initial location at
\* Time(0); each flight that is not Unscheduled and names an aircraft then
\* overwrites the entry of that aircraft, in vector order
RECURSIVE InsertLocations(_, _, _, _)
InsertLocations(aps, fs, i, locs) ==
    IF i > Len(fs) THEN locs
    ELSE LET f == fs[i]
         IN  IF ~is_unscheduled(f.status) /\ f.aircraft_id # None
             THEN InsertLocations(aps, fs, i + 1,
                    [a \in DOMAIN locs \cup {f.aircraft_id} |->
                        IF a = f.aircraft_id
                        THEN <<f.destination_id,
                               get_ready_time(aps, f.arrival_time, f.destination_id)>>
                        ELSE locs[a]])
             ELSE InsertLocations(aps, fs, i + 1, locs)

InitialLocations(acs, aps, fs) ==
    InsertLocations(aps, fs, 1, [a \in DOMAIN acs |-> <<acs[a].initial_location_id, 0>>])

\* the ascending sequence of the members of a set of ids
RECURSIVE SetToSortedSeq(_)
SetToSortedSeq(S) ==
    IF S = {} THEN <<>>
    ELSE LET m == CHOOSE x \in S : \A y \in S : x <= y
         IN  <<m>> \o SetToSortedSeq(S \ {m})

\* aircraft_by_airport: the sorted aircraft ids, each pushed to the bucket
\* of its current location
InitialBuckets(acs, locs) ==
    LET sorted_ids == SetToSortedSeq(DOMAIN acs)
        places == {locs[a][1] : a \in DOMAIN acs}
    IN  [ap \in places |-> SelectSeq(sorted_ids, LAMBDA a : locs[a][1] = ap)]

\* busy: (departure, arrival + mtt of destination) of every flight that
\* names an aircraft, whatever its status
InitialBusy(acs, aps, fs) ==
    [a \in (DOMAIN acs \cup {fs[i].aircraft_id : i \in DOMAIN fs}) \ {None} |->
        {<<fs[i].departure_time,
           get_ready_time(aps, fs[i].arrival_time, fs[i].destination_id)>> :
            i \in {j \in DOMAIN fs : fs[j].aircraft_id = a}}]

\* the four filters of the candidate search, for one aircraft
NotInMaintenance(acs, a, flight) ==
    \A k \in DOMAIN acs[a].disruptions :
        ~is_overlapping(<<flight.departure_time, flight.arrival_time>>,
                        <<acs[a].disruptions[k].from, acs[a].disruptions[k].to>>)

\* mutant of NotAtWrongAirport: the window's airport is compared with the
\* aircraft's initial location
NotAtWrongAirportInitial(acs, a, flight, locs) ==
    ~is_at_wrong_airport(acs[a].disruptions, flight.departure_time,
                         IF a \in DOMAIN locs
                         THEN <<acs[a].initial_location_id, locs[a][2]>> ELSE <<>>)

NotAtWrongAirport(acs, a, flight, locs) ==
    ~is_at_wrong_airport(acs[a].disruptions, flight.departure_time,
                         IF a \in DOMAIN locs THEN locs[a] ELSE <<>>)

NotBusy(a, flight, busy) ==
    IF a \in DOMAIN busy
    THEN \A iv \in busy[a] :
            ~is_overlapping(<<flight.departure_time, flight.arrival_time>>, iv)
    ELSE TRUE

AirportsOpen(aps, flight) ==
    /\ ~CurfewCovers(aps, flight.origin_id, flight.departure_time)
    /\ ~CurfewCovers(aps, flight.destination_id, flight.arrival_time)

Qualifies(acs, aps, a, flight, locs, busy) ==
    /\ NotInMaintenance(acs, a, flight)
    /\ NotAtWrongAirport(acs, a, flight, locs)
    /\ NotBusy(a, flight, busy)
    /\ AirportsOpen(aps, flight)

\* the first aircraft of the origin bucket that passes the filters, or None
ChosenAircraft(acs, aps, flight, st) ==
    IF flight.origin_id \in DOMAIN st.aircraft_by_airport
    THEN LET cands == SelectSeq(st.aircraft_by_airport[flight.origin_id],
                        LAMBDA a : a \in DOMAIN acs
                                   /\ Qualifies(acs, aps, a, flight,
                                                st.current_locations, st.busy))
         IN  IF cands = <<>> THEN None ELSE Head(cands)
    ELSE None

\* entry(destination).and_modify(push, sort).or_insert(vec![id]), then
\* entry(origin).and_modify(retain(id != aircraft))
MoveBucket(buckets, ac, org, dst) ==
    LET pushed == [ap \in DOMAIN buckets \cup {dst} |->
                     IF ap = dst
                     THEN IF dst \in DOMAIN buckets
                          THEN SortIds(Append(buckets[dst], ac))
                          ELSE <<ac>>
                     ELSE buckets[ap]]
    IN  [ap \in DOMAIN pushed |->
            IF ap = org THEN SelectSeq(pushed[ap], LAMBDA x : x # ac)
            ELSE pushed[ap]]

\* mutant of BusyInterval: the turnaround at the destination is left out
BusyIntervalNoTurnaround(aps, flight) ==
    <<flight.departure_time, flight.arrival_time>>

\* the busy interval pushed for a newly bound flight
BusyInterval(aps, flight) ==
    <<flight.departure_time, flight.arrival_time + Mtt(aps, flight.destination_id)>>

\* the candidate search and, on a match, the binding of flight i
Bind(acs, aps, i, st) ==
    LET flight == st.flights[i]
        chosen == ChosenAircraft(acs, aps, flight, st)
        entry  == [idx |-> i, chosen |-> chosen,
                   current_locations |-> st.current_locations,
                   busy |-> st.busy]
    IN  IF chosen = None THEN [st EXCEPT !.log = Append(@, entry)]
        ELSE [flights |-> [st.flights EXCEPT ![i] =
                              [@ EXCEPT !.aircraft_id = chosen, !.status = Scheduled]],
              busy |-> [a \in DOMAIN st.busy \cup {chosen} |->
                          IF a = chosen
                          THEN (IF a \in DOMAIN st.busy THEN st.busy[a] ELSE {})
                               \cup {BusyInterval(aps, flight)}
                          ELSE st.busy[a]],
              aircraft_by_airport |->
                  MoveBucket(st.aircraft_by_airport, chosen,
                             flight.origin_id, flight.destination_id),
              current_locations |->
                  [a \in DOMAIN st.current_locations \cup {chosen} |->
                      IF a = chosen
                      THEN <<flight.destination_id,
                             get_ready_time(aps, flight.arrival_time, flight.destination_id)>>
                      ELSE st.current_locations[a]],
              log |-> Append(st.log, entry)]

\* mutant of AssignStep: the filter on is_unscheduled is left out
AssignStepUnfiltered(acs, aps, i, st) == Bind(acs, aps, i, st)

\* mutant of AssignStep: a flight that finds no aircraft goes back to
\* Unscheduled(Waiting)
AssignStepResetsReason(acs, aps, i, st) ==
    IF is_unscheduled(st.flights[i].status)
    THEN LET b == Bind(acs, aps, i, st)
         IN  IF b.flights[i].aircraft_id = None
             THEN [b EXCEPT !.flights[i].status = Unscheduled("Waiting")]
             ELSE b
    ELSE st

\* the body of the for_each, reached only by the flights that pass
\* filter(|flight| flight.status.is_unscheduled())
AssignStep(acs, aps, i, st) ==
    IF is_unscheduled(st.flights[i].status) THEN Bind(acs, aps, i, st) ELSE st

RECURSIVE AssignFrom(_, _, _, _)
AssignFrom(acs, aps, i, st) ==
    IF i > Len(st.flights) THEN st
    ELSE AssignFrom(acs, aps, i + 1, AssignStep(acs, aps, i, st))

AssignRun(acs, aps, fs) ==
    LET locs == InitialLocations(acs, aps, fs)
    IN  AssignFrom(acs, aps, 1,
            [flights |-> fs,
             current_locations |-> locs,
             aircraft_by_airport |-> InitialBuckets(acs, locs),
             busy |-> InitialBusy(acs, aps, fs),
             log |-> <<>>])

-----------------------------------------------------------------------------
(* Schedule::unschedule and the reports *)

\* mutant of unschedule: the aircraft is taken away, the status is left
unschedule_keeps_status(fs, index, flight_id, reason) ==
    IF flight_id \in DOMAIN index
    THEN [fs EXCEPT ![index[flight_id]] = [@ EXCEPT !.aircraft_id = None]]
    ELSE fs

unschedule(fs, index, flight_id, reason) ==
    IF flight_id \in DOMAIN index
    THEN [fs EXCEPT ![index[flight_id]] =
            [@ EXCEPT !.status = Unscheduled(reason), !.aircraft_id = None]]
    ELSE fs

\* mutant of UnscheduleAll: only the first listed flight is unscheduled
UnscheduleFirstOnly(fs, index, list) ==
    IF list = <<>> THEN fs
    ELSE unschedule(fs, index, list[1][1], list[1][2])

\* report.unscheduled.iter().for_each(|(f_id, reason)| self.unschedule(..))
RECURSIVE UnscheduleAll(_, _, _)
UnscheduleAll(fs, index, list) ==
    IF list = <<>> THEN fs
    ELSE UnscheduleAll(unschedule(fs, index, list[1][1], list[1][2]), index, Tail(list))

\* mutant of First: the last element is taken
FirstIsLast(list) == IF list = <<>> THEN <<>> ELSE <<list[Len(list)]>>

\* An Option is the empty sequence (None) or a one-element sequence (Some)
First(list) == IF list = <<>> THEN <<>> ELSE <<list[1]>>

DelayKind(flight_id, shift) == [type |-> "Delay", flight |-> flight_id, delay_by |-> shift]

CurfewKind(airport_id, from, to) ==
    [type |-> "Curfew", airport |-> airport_id, from |-> from, to |-> to]

Report(kind, affected, unscheduled) ==
    [kind |-> kind, affected |-> affected, unscheduled |-> unscheduled,
     first_break |-> First(unscheduled)]

-----------------------------------------------------------------------------
(* Schedule::apply_delay *)

\* mutant of ExceedsMaxDelay: a shift of MAX_DELAY itself is rejected
ExceedsMaxDelayInclusive(shift) == shift >= MAX_DELAY

\* if shift > MAX_DELAY
ExceedsMaxDelay(shift) == shift > MAX_DELAY

\* mutant of DelayTrigger: the maintenance and curfew tests take the shifted
\* departure instead of the original one
DelayTriggerShiftedDeparture(aps, ac_disruptions, fs, f, shift) ==
    IF ExceedsMaxDelay(shift)
    THEN [flights |-> fs, is_broken |-> TRUE, affected |-> <<>>,
          unscheduled |-> <<<<fs[f].id, "MaxDelayExceeded">>>>]
    ELSE LET moved == [fs EXCEPT ![f] =
                         [@ EXCEPT !.departure_time = @ + shift,
                                   !.arrival_time = @ + shift]]
             shifted_dep_time == moved[f].departure_time
             shifted_arr_time == moved[f].arrival_time
         IN  IF violates_aircraft_maintenance(ac_disruptions, shifted_dep_time,
                                              shifted_arr_time)
             THEN [flights |-> moved, is_broken |-> TRUE, affected |-> <<>>,
                   unscheduled |-> <<<<fs[f].id, "AircraftMaintenance">>>>]
             ELSE IF is_airport_closed(aps, moved[f], shifted_dep_time,
                                       shifted_arr_time)
             THEN [flights |-> moved, is_broken |-> TRUE, affected |-> <<>>,
                   unscheduled |-> <<<<fs[f].id, "AirportCurfew">>>>]
             ELSE [flights |-> [moved EXCEPT ![f] =
                                   [@ EXCEPT !.status = Delayed(shift)]],
                   is_broken |-> FALSE, affected |-> <<fs[f].id>>,
                   unscheduled |-> <<>>]

\* the delay applied to the triggering flight at position f
DelayTrigger(aps, ac_disruptions, fs, f, shift) ==
    IF ExceedsMaxDelay(shift)
    THEN [flights |-> fs, is_broken |-> TRUE, affected |-> <<>>,
          unscheduled |-> <<<<fs[f].id, "MaxDelayExceeded">>>>]
    ELSE LET orig_dep_time == fs[f].departure_time
             moved == [fs EXCEPT ![f] =
                         [@ EXCEPT !.departure_time = @ + shift,
                                   !.arrival_time = @ + shift]]
             shifted_arr_time == moved[f].arrival_time
         IN  IF violates_aircraft_maintenance(ac_disruptions, orig_dep_time,
                                              shifted_arr_time)
             THEN [flights |-> moved, is_broken |-> TRUE, affected |-> <<>>,
                   unscheduled |-> <<<<fs[f].id, "AircraftMaintenance">>>>]
             ELSE IF is_airport_closed(aps, moved[f], orig_dep_time, shifted_arr_time)
             THEN [flights |-> moved, is_broken |-> TRUE, affected |-> <<>>,
                   unscheduled |-> <<<<fs[f].id, "AirportCurfew">>>>]
             ELSE [flights |-> [moved EXCEPT ![f] =
                                   [@ EXCEPT !.status = Delayed(shift)]],
                   is_broken |-> FALSE, affected |-> <<fs[f].id>>,
                   unscheduled |-> <<>>]

\* mutant of DelayMinutes: the minutes are read after departure_time was
\* overwritten with dep_time
DelayMinutesAfterMove(flight, dep_time) == dep_time - dep_time

\* minutes: (dep_time - flight.departure_time).0, read before the flight moves
DelayMinutes(flight, dep_time) == dep_time - flight.departure_time

\* mutant of DisplacementExceedsMaxDelay: a displacement of MAX_DELAY itself
\* is rejected
DisplacementReachesMaxDelay(flight, dep_time) ==
    dep_time - flight.departure_time >= MAX_DELAY

\* dep_time - flight.departure_time > Time(Self::MAX_DELAY)
DisplacementExceedsMaxDelay(flight, dep_time) ==
    dep_time - flight.departure_time > MAX_DELAY

\* one iteration of the loop over the later flights of the aircraft
WalkStep(aps, ac_disruptions, i, w) ==
    LET flight == w.flights[i]
        t == compute_shifted_times(aps, flight, w.prev_arrival_time)
        is_ac_disrupted ==
            violates_aircraft_maintenance(ac_disruptions, flight.departure_time,
                                          t.arr_time)
        wrong == is_at_wrong_airport(ac_disruptions, flight.departure_time,
                                     <<w.prev_destination_id, w.prev_arrival_time>>)
        closed == is_airport_closed(aps, flight, t.dep_time, t.arr_time)
        over == DisplacementExceedsMaxDelay(flight, t.dep_time)
        step == [idx |-> i, broken |-> w.is_broken,
                 prev_arrival_time |-> w.prev_arrival_time,
                 prev_destination_id |-> w.prev_destination_id,
                 dep_time |-> t.dep_time, arr_time |-> t.arr_time,
                 is_overlapping |-> t.is_overlapping,
                 is_ac_disrupted |-> is_ac_disrupted,
                 is_at_wrong_airport |-> wrong,
                 closed |-> closed, over |-> over, outcome |-> "BrokenChain"]
        fail(reason) ==
            [w EXCEPT !.unscheduled = Append(@, <<flight.id, reason>>),
                      !.is_broken = TRUE,
                      !.steps = Append(@, [step EXCEPT !.outcome = reason])]
    IN  IF w.is_broken
        THEN [w EXCEPT !.unscheduled = Append(@, <<flight.id, "BrokenChain">>),
                       !.steps = Append(@, step)]
        ELSE IF is_ac_disrupted \/ wrong THEN fail("AircraftMaintenance")
        ELSE IF closed THEN fail("AirportCurfew")
        ELSE IF over THEN fail("MaxDelayExceeded")
        ELSE IF t.is_overlapping
        THEN [w EXCEPT !.flights[i] =
                          [@ EXCEPT !.status = Delayed(DelayMinutes(flight, t.dep_time)),
                                    !.departure_time = t.dep_time,
                                    !.arrival_time = t.arr_time],
                       !.prev_arrival_time = t.arr_time,
                       !.prev_destination_id = flight.destination_id,
                       !.affected = Append(@, flight.id),
                       !.steps = Append(@, [step EXCEPT !.outcome = "Delayed"])]
        ELSE [w EXCEPT !.stopped = TRUE,
                       !.steps = Append(@, [step EXCEPT !.outcome = "Stop"])]

\* mutant of Walk: the filter on the aircraft is left out
RECURSIVE WalkEveryAircraft(_, _, _, _, _)
WalkEveryAircraft(aps, ac_disruptions, ac_id, i, w) ==
    IF i > Len(w.flights) \/ w.stopped THEN w
    ELSE WalkEveryAircraft(aps, ac_disruptions, ac_id, i + 1,
                           WalkStep(aps, ac_disruptions, i, w))

\* mutant of Walk: the loop ends at the first flight it meets once the chain
\* is broken
RECURSIVE WalkEndsWhenBroken(_, _, _, _, _)
WalkEndsWhenBroken(aps, ac_disruptions, ac_id, i, w) ==
    IF i > Len(w.flights) \/ w.stopped \/ w.is_broken THEN w
    ELSE IF w.flights[i].aircraft_id # ac_id
    THEN WalkEndsWhenBroken(aps, ac_disruptions, ac_id, i + 1, w)
    ELSE WalkEndsWhenBroken(aps, ac_disruptions, ac_id, i + 1,
                            WalkStep(aps, ac_disruptions, i, w))

\* for flight in flights.iter_mut().skip(f + 1).filter(aircraft_id == ac_id)
RECURSIVE Walk(_, _, _, _, _)
Walk(aps, ac_disruptions, ac_id, i, w) ==
    IF i > Len(w.flights) \/ w.stopped THEN w
    ELSE IF w.flights[i].aircraft_id # ac_id
    THEN Walk(aps, ac_disruptions, ac_id, i + 1, w)
    ELSE Walk(aps, ac_disruptions, ac_id, i + 1, WalkStep(aps, ac_disruptions, i, w))

\* the body of if let Some(&f_id) = flights_index.get(&flight_id), with the
\* unscheduling of the listed flights that follows it; f is the position found
DelayKnown(acs, aps, fs, index, f, flight_id, shift) ==
    LET ac_id == fs[f].aircraft_id
        ac_disruptions == IF ac_id \in DOMAIN acs THEN acs[ac_id].disruptions
                          ELSE <<>>
        trig == DelayTrigger(aps, ac_disruptions, fs, f, shift)
        w0 == [flights |-> trig.flights, is_broken |-> trig.is_broken,
               prev_arrival_time |-> trig.flights[f].arrival_time,
               prev_destination_id |-> trig.flights[f].destination_id,
               affected |-> trig.affected, unscheduled |-> trig.unscheduled,
               stopped |-> FALSE, steps |-> <<>>]
        w == IF ac_id # None THEN Walk(aps, ac_disruptions, ac_id, f + 1, w0)
             ELSE w0
    IN  [flights |-> UnscheduleAll(w.flights, index, w.unscheduled),
         report |-> Report(DelayKind(flight_id, shift), w.affected, w.unscheduled),
         steps |-> w.steps]

\* mutant of DelayRun: an id that is not in the index falls back to position 1
DelayRunDefaultPosition(acs, aps, fs, index, flight_id, shift) ==
    DelayKnown(acs, aps, fs, index,
               IF flight_id \in DOMAIN index THEN index[flight_id] ELSE 1,
               flight_id, shift)

\* the call from its lookup of the flight to the end; shift > 0
DelayRun(acs, aps, fs, index, flight_id, shift) ==
    IF flight_id \notin DOMAIN index
    THEN [flights |-> fs, report |-> Report(DelayKind(flight_id, shift), <<>>, <<>>),
          steps |-> <<>>]
    ELSE DelayKnown(acs, aps, fs, index, index[flight_id], flight_id, shift)

-----------------------------------------------------------------------------
(* Schedule::apply_curfew *)

\* the filters of the first pass: a flight that is not Unscheduled, touches
\* the airport and overlaps one of its curfews
HitByCurfew(aps, airport_id, f) ==
    /\ ~is_unscheduled(f.status)
    /\ (f.origin_id = airport_id \/ f.destination_id = airport_id)
    /\ \E k \in DOMAIN aps[airport_id].disruptions :
          is_overlapping(<<f.departure_time, f.arrival_time>>,
                         <<aps[airport_id].disruptions[k].from,
                           aps[airport_id].disruptions[k].to>>)

\* the fold into `broken`: entry(ac_id).or_insert(departure_time) keeps the
\* departure of the first hit flight of each aircraft, in vector order
BrokenTimes(aps, fs, airport_id) ==
    LET hit(i) == HitByCurfew(aps, airport_id, fs[i]) /\ fs[i].aircraft_id # None
        acs_hit == {fs[i].aircraft_id : i \in {j \in DOMAIN fs : hit(j)}}
    IN  [a \in acs_hit |->
            LET first == CHOOSE i \in DOMAIN fs :
                            /\ hit(i) /\ fs[i].aircraft_id = a
                            /\ \A j \in DOMAIN fs :
                                  (hit(j) /\ fs[j].aircraft_id = a) => i <= j
            IN  fs[first].departure_time]

\* the second pass: whether flight i is pushed to report.unscheduled
CurfewRemoves(fs, broken, i) ==
    /\ ~is_unscheduled(fs[i].status)
    /\ fs[i].aircraft_id # None
    /\ fs[i].aircraft_id \in DOMAIN broken
    /\ fs[i].departure_time >= broken[fs[i].aircraft_id]

\* mutant of CurfewReason: one counter shared by all aircraft
CurfewReasonSharedCounter(fs, broken, i) ==
    IF \E j \in 1..(i - 1) : CurfewRemoves(fs, broken, j)
    THEN "BrokenChain"
    ELSE "AirportCurfew"

\* the reason pushed for flight i: the counter of its aircraft is 0 for the
\* first removed flight and positive afterwards
CurfewReason(fs, broken, i) ==
    IF \E j \in 1..(i - 1) :
          CurfewRemoves(fs, broken, j) /\ fs[j].aircraft_id = fs[i].aircraft_id
    THEN "BrokenChain"
    ELSE "AirportCurfew"

RECURSIVE CurfewList(_, _, _)
CurfewList(fs, broken, i) ==
    IF i > Len(fs) THEN <<>>
    ELSE IF CurfewRemoves(fs, broken, i)
    THEN <<<<fs[i].id, CurfewReason(fs, broken, i)>>>> \o CurfewList(fs, broken, i + 1)
    ELSE CurfewList(fs, broken, i + 1)

\* mutant of CurfewRun: an airport that is not in the schedule is created
\* with the curfew
CurfewRunCreatesAirport(aps, fs, index, airport_id, from, to) ==
    LET known == IF airport_id \in DOMAIN aps THEN aps
                 ELSE aps @@ (airport_id :> [mtt |-> 0, disruptions |-> <<>>])
        pushed == [known EXCEPT ![airport_id].disruptions =
                       Append(@, Curfew(from, to))]
        broken == BrokenTimes(pushed, fs, airport_id)
        list == CurfewList(fs, broken, 1)
    IN  [airports |-> pushed,
         flights |-> UnscheduleAll(fs, index, list),
         report |-> Report(CurfewKind(airport_id, from, to), <<>>, list)]

\* mutant of CurfewRun: the new window takes the place of the airport's list
CurfewRunReplacesList(aps, fs, index, airport_id, from, to) ==
    IF airport_id \in DOMAIN aps
    THEN LET pushed == [aps EXCEPT ![airport_id].disruptions = <<Curfew(from, to)>>]
             broken == BrokenTimes(pushed, fs, airport_id)
             list == CurfewList(fs, broken, 1)
         IN  [airports |-> pushed,
              flights |-> UnscheduleAll(fs, index, list),
              report |-> Report(CurfewKind(airport_id, from, to), <<>>, list)]
    ELSE [airports |-> aps, flights |-> fs,
          report |-> Report(CurfewKind(airport_id, from, to), <<>>, <<>>)]

CurfewRun(aps, fs, index, airport_id, from, to) ==
    IF airport_id \in DOMAIN aps
    THEN LET pushed == [aps EXCEPT ![airport_id].disruptions =
                            Append(@, Curfew(from, to))]
             broken == BrokenTimes(pushed, fs, airport_id)
             list == CurfewList(fs, broken, 1)
         IN  [airports |-> pushed,
              flights |-> UnscheduleAll(fs, index, list),
              report |-> Report(CurfewKind(airport_id, from, to), <<>>, list)]
    ELSE [airports |-> aps, flights |-> fs,
          report |-> Report(CurfewKind(airport_id, from, to), <<>>, <<>>)]

-----------------------------------------------------------------------------
(* Loaded scenarios.  Airports: 1 = KRK (MTT 45), 2 = WRO and 3 = WAW      *)
(* (MTT 30, as in the test fixtures); aircraft 1 = PLANE_1 and             *)
(* 2 = PLANE_2; flight ids 1..3.  The times are those of the rotation      *)
(* KRK -> WRO [1200,1500] -> WAW [1800,2000] -> KRK [2100,2350] of         *)
(* tests/delay.rs.                                                         *)

Waiting == Unscheduled("Waiting")

Ports(c1, c2, c3) ==
    (1 :> [mtt |-> 45, disruptions |-> c1]) @@
    (2 :> [mtt |-> 30, disruptions |-> c2]) @@
    (3 :> [mtt |-> 30, disruptions |-> c3])

OpenPorts == Ports(<<>>, <<>>, <<>>)

Fleet(loc1, d1, loc2, d2) ==
    (1 :> [id |-> 1, initial_location_id |-> loc1, disruptions |-> d1]) @@
    (2 :> [id |-> 2, initial_location_id |-> loc2, disruptions |-> d2])

\* the rotation of tests/delay.rs, bound to aircraft ac with status st
Rotation(ac, st) ==
    <<Flight(1, ac, 1, 2, 1200, 1500, st),
      Flight(2, ac, 2, 3, 1800, 2000, st),
      Flight(3, ac, 3, 1, 2100, 2350, st)>>

\* a rotation without slack: each leg departs at the previous arrival + MTT
TightRotation(ac, st) ==
    <<Flight(1, ac, 1, 2, 1200, 1500, st),
      Flight(2, ac, 2, 3, 1530, 1700, st),
      Flight(3, ac, 3, 1, 1730, 1900, st)>>

\* tests/delay.rs, test_delay_aircraft_subsequent_flight_into_max_delay: a
\* loaded rotation whose second leg departs 5 minutes after the first arrives
SqueezedRotation(ac, st) ==
    <<Flight(1, ac, 1, 2, 1200, 1500, st),
      Flight(2, ac, 2, 3, 1505, 1700, st),
      Flight(3, ac, 3, 1, 1800, 1900, st)>>

\* legs that do not chain in departure order
Scattered ==
    <<Flight(1, None, 2, 3, 1200, 1300, Waiting),
      Flight(2, None, 1, 2, 1800, 2000, Waiting),
      Flight(3, None, 3, 1, 1250, 1500, Waiting)>>

\* tests/assign.rs: a connection 10 minutes after the arrival (inside the
\* turnaround) and one exactly at arrival + MTT
Connections ==
    <<Flight(1, None, 1, 2, 1200, 1500, Waiting),
      Flight(2, None, 2, 3, 1510, 1700, Waiting),
      Flight(3, None, 2, 3, 1530, 1700, Waiting)>>

\* a leg that returns to its origin, then two legs out of that airport
RoundTrip ==
    <<Flight(1, None, 1, 1, 1200, 1500, Waiting),
      Flight(2, None, 1, 2, 1800, 2000, Waiting),
      Flight(3, None, 1, 3, 1800, 2000, Waiting)>>

\* two aircraft based at the same airport and legs either could fly
SharedBase ==
    <<Flight(1, None, 1, 2, 1200, 1500, Waiting),
      Flight(2, None, 1, 2, 1250, 1500, Waiting),
      Flight(3, None, 2, 1, 1800, 2000, Waiting)>>

\* Availability windows of PLANE_1 used by tests/delay.rs, and none
Windows1 ==
    {<<>>,
     <<Availability(1600, 1700, None)>>,
     <<Availability(2000, 2020, None)>>,
     <<Availability(1600, 1650, 1)>>,
     <<Availability(1600, 1650, 2)>>}

Loads ==
    {[aircraft |-> Fleet(1, d, 2, <<>>), airports |-> OpenPorts,
      flights |-> Rotation(1, Scheduled)] : d \in Windows1}
    \cup
    {[aircraft |-> Fleet(1, d, 1, <<>>), airports |-> OpenPorts,
      flights |-> Rotation(None, Waiting)] : d \in Windows1}
    \cup
    {[aircraft |-> Fleet(1, <<>>, 2, <<>>),
      airports |-> Ports(<<>>, <<Curfew(1600, 1700)>>, <<>>),
      flights |-> Rotation(1, Scheduled)],
     [aircraft |-> Fleet(1, <<>>, 2, <<>>), airports |-> OpenPorts,
      flights |-> TightRotation(1, Scheduled)],
     [aircraft |-> Fleet(1, <<>>, 2, <<>>), airports |-> OpenPorts,
      flights |-> SqueezedRotation(1, Scheduled)],
     [aircraft |-> Fleet(1, <<>>, 1, <<>>), airports |-> OpenPorts,
      flights |-> Scattered],
     [aircraft |-> Fleet(1, <<>>, 3, <<>>), airports |-> OpenPorts,
      flights |-> Connections],
     [aircraft |-> Fleet(1, <<>>, 1, <<>>), airports |-> OpenPorts,
      flights |-> RoundTrip],
     [aircraft |-> Fleet(1, <<>>, 1, <<>>), airports |-> OpenPorts,
      flights |-> SharedBase]}

\* arguments of the calls: flight 4 and airport 4 are in no load
FlightArgs == 1..4

Shifts == {0, 100, 500, MAX_DELAY, MAX_DELAY + 1}

AirportArgs == {2, 3, 4}

CurfewArgs == {<<1900, 2050>>, <<1600, 1700>>, <<1600, 1800>>}

NoOp == [name |-> "new", flight |-> None, shift |-> 0,
         airport |-> None, from |-> 0, to |-> 0]

-----------------------------------------------------------------------------
(* The state machine *)

InitFrom(loads) ==
    \E ld \in loads :
        LET s == New(ld.aircraft, ld.airports, ld.flights)
        IN  /\ aircraft = s.aircraft
            /\ airports = s.airports
            /\ flights = s.flights
            /\ flights_index = s.flights_index
            /\ last_report = <<>>
            /\ op = NoOp
            /\ pre = s.flights
            /\ pre_airports = s.airports
            /\ trace = <<>>
            /\ loaded = s.flights
            /\ nops = 0

AssignWithin(limit) ==
    /\ nops < limit
    /\ LET r == AssignRun(aircraft, airports, flights)
       IN  /\ flights' = r.flights
           /\ trace' = r.log
    /\ op' = [NoOp EXCEPT !.name = "assign"]
    /\ pre' = flights
    /\ pre_airports' = airports
    /\ nops' = nops + 1
    /\ UNCHANGED <<aircraft, airports, flights_index, last_report, loaded>>

\* mutant of ApplyDelayWithin: no early return for a shift of 0
ApplyDelayWithoutZeroReturn(limit, flight_id, shift) ==
    /\ nops < limit
    /\ LET r == DelayRun(aircraft, airports, flights, flights_index,
                         flight_id, shift)
       IN  /\ flights' = r.flights
           /\ last_report' = <<r.report>>
           /\ trace' = r.steps
    /\ op' = [NoOp EXCEPT !.name = "apply_delay", !.flight = flight_id,
                          !.shift = shift]
    /\ pre' = flights
    /\ pre_airports' = airports
    /\ nops' = nops + 1
    /\ UNCHANGED <<aircraft, airports, flights_index, loaded>>

ApplyDelayWithin(limit, flight_id, shift) ==
    /\ nops < limit
    /\ IF shift = 0
       THEN /\ UNCHANGED <<flights, last_report>>
            /\ trace' = <<>>
       ELSE LET r == DelayRun(aircraft, airports, flights, flights_index,
                              flight_id, shift)
            IN  /\ flights' = r.flights
                /\ last_report' = <<r.report>>
                /\ trace' = r.steps
    /\ op' = [NoOp EXCEPT !.name = "apply_delay", !.flight = flight_id,
                          !.shift = shift]
    /\ pre' = flights
    /\ pre_airports' = airports
    /\ nops' = nops + 1
    /\ UNCHANGED <<aircraft, airports, flights_index, loaded>>

ApplyCurfewWithin(limit, airport_id, from, to) ==
    /\ nops < limit
    /\ LET r == CurfewRun(airports, flights, flights_index, airport_id, from, to)
       IN  /\ airports' = r.airports
           /\ flights' = r.flights
           /\ last_report' = <<r.report>>
    /\ trace' = <<>>
    /\ op' = [NoOp EXCEPT !.name = "apply_curfew", !.airport = airport_id,
                          !.from = from, !.to = to]
    /\ pre' = flights
    /\ pre_airports' = airports
    /\ nops' = nops + 1
    /\ UNCHANGED <<aircraft, flights_index, loaded>>

Assign == AssignWithin(MaxOps)

ApplyDelay(flight_id, shift) == ApplyDelayWithin(MaxOps, flight_id, shift)

ApplyCurfew(airport_id, from, to) == ApplyCurfewWithin(MaxOps, airport_id, from, to)

Next ==
    \/ Assign
    \/ \E f \in FlightArgs, s \in Shifts : ApplyDelay(f, s)
    \/ \E a \in AirportArgs, w \in CurfewArgs : ApplyCurfew(a, w[1], w[2])

Init == InitFrom(Loads)

Spec == Init /\ [][Next]_vars

\* the same program followed for MaxDeepOps calls from the rotation loads
DeepLoads == {ld \in Loads : ld.flights = Rotation(1, Scheduled)}

DeepInit == InitFrom(DeepLoads)

DeepAssign == AssignWithin(MaxDeepOps)

DeepApplyDelay(flight_id, shift) == ApplyDelayWithin(MaxDeepOps, flight_id, shift)

DeepApplyCurfew(airport_id, from, to) ==
    ApplyCurfewWithin(MaxDeepOps, airport_id, from, to)

DeepNext ==
    \/ DeepAssign
    \/ \E f \in FlightArgs, s \in Shifts : DeepApplyDelay(f, s)
    \/ \E a \in AirportArgs, w \in CurfewArgs : DeepApplyCurfew(a, w[1], w[2])

SpecDeep == DeepInit /\ [][DeepNext]_vars

-----------------------------------------------------------------------------
(* Schedule::assert_invariants: the predicates it asserts *)

\* aircraft_id is set exactly for Scheduled and Delayed flights
StatusOwnership(fs) ==
    \A i \in DOMAIN fs :
        IF is_unscheduled(fs[i].status) THEN fs[i].aircraft_id = None
        ELSE fs[i].aircraft_id # None

DelayPositive(fs) ==
    \A i \in DOMAIN fs : fs[i].status.kind = "Delayed" => fs[i].status.minutes > 0

\* flight_by_aircraft[ac], sorted by departure_time
AssignedTo(fs, ac) ==
    SortByDeparture(SelectSeq(fs, LAMBDA f : f.aircraft_id = ac))

AssignedAircraft(fs) == {fs[i].aircraft_id : i \in DOMAIN fs} \ {None}

LocationContinuity(rot) ==
    \A k \in 1..(Len(rot) - 1) : rot[k].destination_id = rot[k + 1].origin_id

TemporalContinuity(aps, rot) ==
    \A k \in 1..(Len(rot) - 1) :
        rot[k + 1].departure_time >=
            rot[k].arrival_time + aps[rot[k].destination_id].mtt

Continuity(aps, fs) ==
    \A ac \in AssignedAircraft(fs) :
        /\ LocationContinuity(AssignedTo(fs, ac))
        /\ TemporalContinuity(aps, AssignedTo(fs, ac))

FirstOrigin(acs, fs) ==
    \A ac \in AssignedAircraft(fs) :
        AssignedTo(fs, ac)[1].origin_id = acs[ac].initial_location_id

-----------------------------------------------------------------------------
(* Claims *)

\* C1: in every state reached by assign, apply_delay and apply_curfew calls
\* from a load in which it holds, every flight has an aircraft_id exactly
\* when its status is Scheduled or Delayed.
C1_StatusOwnership == StatusOwnership(flights)

\* C2: in every reachable state the flights of each aircraft, sorted by
\* departure, connect in location (prev.destination = next.origin) and in
\* time (next.departure >= prev.arrival + mtt(prev.destination)).
C2_Continuity == Continuity(airports, flights)

\* C3: in every reachable state the earliest-departing flight assigned to an
\* aircraft departs from that aircraft's initial_location_id.
C3_FirstOrigin == FirstOrigin(aircraft, flights)

\* the load of tests/proptests.rs: every flight Unscheduled without an
\* aircraft and with arrival after departure, no Availability window and no
\* curfew anywhere
FreshLoad ==
    /\ \A i \in DOMAIN loaded :
          /\ is_unscheduled(loaded[i].status)
          /\ loaded[i].aircraft_id = None
          /\ loaded[i].arrival_time > loaded[i].departure_time
    /\ \A a \in DOMAIN aircraft : aircraft[a].disruptions = <<>>
    /\ \A ap \in DOMAIN pre_airports : pre_airports[ap].disruptions = <<>>

\* C4: after a single assign() on a load of Unscheduled flights without
\* aircraft, with arrival > departure and no disruption windows, the flights
\* of every aircraft connect in location and are spaced by at least the MTT
\* of the connecting airport.
C4_SingleAssignContinuity ==
    (nops = 1 /\ op.name = "assign" /\ FreshLoad) => Continuity(airports, flights)

\* C4 witness: such an assign() gave some aircraft two or more flights
C4_Witness ==
    /\ nops = 1 /\ op.name = "assign" /\ FreshLoad
    /\ \E ac \in AssignedAircraft(flights) : Len(AssignedTo(flights, ac)) >= 2

\* C5: in every reachable state a flight with status Delayed{minutes} has
\* minutes > 0, the triggering flight of apply_delay and the flights it
\* displaces downstream alike.
C5_DelayPositive == DelayPositive(flights)

\* C5 witness: apply_delay delayed its triggering flight and displaced a
\* downstream flight
C5_Witness ==
    /\ op.name = "apply_delay"
    /\ \E k \in DOMAIN trace :
          /\ trace[k].outcome = "Delayed"
          /\ flights[trace[k].idx].status.kind = "Delayed"
    /\ flights[flights_index[op.flight]].status.kind = "Delayed"

\* C6: in a state produced by assign(), another assign() changes no
\* flight's aircraft_id or status.
C6_AssignIdempotent ==
    op.name = "assign" =>
        LET again == AssignRun(aircraft, airports, flights).flights
        IN  \A i \in DOMAIN flights :
                /\ again[i].aircraft_id = flights[i].aircraft_id
                /\ again[i].status = flights[i].status

\* the aircraft that are at the flight's origin and pass the four filters,
\* at the moment log entry e was taken
QualifyingAt(e) ==
    {a \in DOMAIN aircraft :
        /\ e.current_locations[a][1] = pre[e.idx].origin_id
        /\ Qualifies(aircraft, airports, a, pre[e.idx], e.current_locations, e.busy)}

\* C7: whenever assign() examines a flight and two or more aircraft located
\* at its origin satisfy the assignment conditions, the flight is bound to
\* the smallest aircraft id among them.
C7_SmallestQualifying ==
    op.name = "assign" =>
        \A k \in DOMAIN trace :
            Cardinality(QualifyingAt(trace[k])) >= 2 =>
                /\ trace[k].chosen \in QualifyingAt(trace[k])
                /\ \A a \in QualifyingAt(trace[k]) : trace[k].chosen <= a

\* C8: assign() leaves every flight that was Scheduled or Delayed when the
\* call started exactly as it was (aircraft_id, status and times).
C8_AssignFrame ==
    op.name = "assign" =>
        \A i \in DOMAIN pre : ~is_unscheduled(pre[i].status) => flights[i] = pre[i]

\* C8 witness: an assign() that started with a Scheduled or Delayed flight
\* and bound another flight
C8_Witness ==
    /\ op.name = "assign"
    /\ \E i \in DOMAIN pre : ~is_unscheduled(pre[i].status)
    /\ \E j \in DOMAIN pre : flights[j] # pre[j]

\* the position of the flight apply_delay was called on, and its aircraft
\* when the call started
DelayedAt == flights_index[op.flight]

DelayedAircraft == pre[DelayedAt].aircraft_id

\* the flights of aircraft ac, in vector order, form a continuous rotation
RotationInOrder(aps, fs, ac) ==
    LET rot == SelectSeq(fs, LAMBDA f : f.aircraft_id = ac)
    IN  LocationContinuity(rot) /\ TemporalContinuity(aps, rot)

\* apply_delay(f, s) with 0 < s <= MAX_DELAY on a flight of a continuous
\* rotation whose aircraft has no Availability window, with no curfew at
\* any airport
C9_Case ==
    /\ op.name = "apply_delay"
    /\ op.shift > 0 /\ op.shift <= MAX_DELAY
    /\ op.flight \in DOMAIN flights_index
    /\ DelayedAircraft # None
    /\ ~is_unscheduled(pre[DelayedAt].status)
    /\ aircraft[DelayedAircraft].disruptions = <<>>
    /\ \A ap \in DOMAIN pre_airports : pre_airports[ap].disruptions = <<>>
    /\ RotationInOrder(pre_airports, pre, DelayedAircraft)

\* what C9 states for the flights at positions i.. of the aircraft, given
\* the arrival and destination of the flight before them in the rotation
RECURSIVE C9_Expected(_, _, _, _)
C9_Expected(i, prev_arrival, prev_destination, acc) ==
    IF i > Len(pre) THEN acc
    ELSE IF pre[i].aircraft_id # DelayedAircraft
    THEN C9_Expected(i + 1, prev_arrival, prev_destination, acc)
    ELSE LET ready == prev_arrival + pre_airports[prev_destination].mtt
             len == pre[i].arrival_time - pre[i].departure_time
         IN  IF pre[i].departure_time < ready
             THEN C9_Expected(i + 1, ready + len, pre[i].destination_id,
                    [flights |-> [acc.flights EXCEPT ![i] =
                                    [@ EXCEPT !.departure_time = ready,
                                              !.arrival_time = ready + len,
                                              !.status = Delayed(ready - pre[i].departure_time)]],
                     affected |-> Append(acc.affected, pre[i].id)])
             ELSE C9_Expected(i + 1, pre[i].arrival_time, pre[i].destination_id, acc)

C9_Result ==
    C9_Expected(DelayedAt + 1,
                pre[DelayedAt].arrival_time + op.shift,
                pre[DelayedAt].destination_id,
                [flights |-> [pre EXCEPT ![DelayedAt] =
                                [@ EXCEPT !.departure_time = @ + op.shift,
                                          !.arrival_time = @ + op.shift,
                                          !.status = Delayed(op.shift)]],
                 affected |-> <<op.flight>>])

C10_NotDisplaced(st) ==
    LET flight == pre[st.idx]
        acd == aircraft[DelayedAircraft].disruptions
    IN  /\ ~st.broken
        /\ flight.departure_time >=
              get_ready_time(pre_airports, st.prev_arrival_time, flight.origin_id)
        /\ ~violates_aircraft_maintenance(acd, flight.departure_time,
                                          flight.arrival_time)
        /\ ~is_at_wrong_airport(acd, flight.departure_time,
                                <<st.prev_destination_id, st.prev_arrival_time>>)
        /\ ~is_airport_closed(pre_airports, flight, flight.departure_time,
                              flight.arrival_time)

ReportedIds(report) ==
    Range(report.affected) \cup {report.unscheduled[k][1] : k \in DOMAIN report.unscheduled}

\* C10: when apply_delay's walk meets, with the chain unbroken, a flight
\* that violates no constraint and is not displaced, that flight and every
\* later flight of the aircraft keep their times, status and aircraft_id
\* and none of them is in the report.
C10_PropagationStops ==
    (op.name = "apply_delay" /\ op.shift > 0) =>
        \A k \in DOMAIN trace :
            C10_NotDisplaced(trace[k]) =>
                \A j \in DOMAIN flights :
                    (j >= trace[k].idx /\ pre[j].aircraft_id = DelayedAircraft) =>
                        /\ flights[j] = pre[j]
                        /\ pre[j].id \notin ReportedIds(last_report[1])

\* C10 witness: the walk stopped at a flight that has a later flight of the
\* same aircraft behind it, after the triggering flight was delayed
C10_Witness ==
    /\ op.name = "apply_delay" /\ op.shift > 0
    /\ \E k \in DOMAIN trace :
          /\ C10_NotDisplaced(trace[k])
          /\ \E j \in DOMAIN flights :
                j > trace[k].idx /\ pre[j].aircraft_id = DelayedAircraft
    /\ flights[DelayedAt].status.kind = "Delayed"

-----------------------------------------------------------------------------
(* apply_delay: broken chains *)

\* the last call was apply_delay with a shift above 0 on a flight of the schedule
DelayOfKnown ==
    /\ op.name = "apply_delay"
    /\ op.shift > 0
    /\ op.flight \in DOMAIN flights_index

\* position p is the triggering flight or a flight of its walk, and the call
\* left it unscheduled
UnscheduledInCall(p) ==
    /\ p >= DelayedAt
    /\ DelayedAircraft # None
    /\ pre[p].aircraft_id = DelayedAircraft
    /\ is_unscheduled(flights[p].status)

\* C11: after apply_delay, when the triggering flight or a flight of the walk
\* is unscheduled, every flight of the same aircraft at a later position of
\* the flight vector is Unscheduled(BrokenChain) without aircraft, at the
\* departure and arrival times it had before the call
C11_BrokenChain ==
    DelayOfKnown =>
        \A p \in 1..Len(pre) : \A j \in 1..Len(pre) :
            (UnscheduledInCall(p) /\ j > p /\ pre[j].aircraft_id = DelayedAircraft)
            => flights[j] = [pre[j] EXCEPT !.status = Unscheduled("BrokenChain"),
                                           !.aircraft_id = None]

\* a flight of the walk was unscheduled for a reason of its own and a later
\* flight of the aircraft follows it
C11_Witness ==
    /\ DelayOfKnown
    /\ \E p \in 1..Len(pre) : \E j \in 1..Len(pre) :
           /\ p > DelayedAt
           /\ UnscheduledInCall(p)
           /\ flights[p].status # Unscheduled("BrokenChain")
           /\ j > p
           /\ pre[j].aircraft_id = DelayedAircraft

-----------------------------------------------------------------------------
(* apply_delay: the triggering flight *)

\* C12: apply_delay with a shift above MAX_DELAY on a flight of the schedule
\* leaves the flight Unscheduled(MaxDelayExceeded) without aircraft and at
\* its old times; a shift of exactly MAX_DELAY does not leave it
\* Unscheduled(MaxDelayExceeded)
C12_MaxDelayTrigger ==
    DelayOfKnown =>
        /\ op.shift > MAX_DELAY =>
               flights[DelayedAt] =
                   [pre[DelayedAt] EXCEPT !.status = Unscheduled("MaxDelayExceeded"),
                                          !.aircraft_id = None]
        /\ op.shift = MAX_DELAY =>
               flights[DelayedAt].status # Unscheduled("MaxDelayExceeded")

\* a flight that had an aircraft was delayed by more than MAX_DELAY
C12_Witness ==
    /\ DelayOfKnown
    /\ op.shift > MAX_DELAY
    /\ DelayedAircraft # None
    /\ flights[DelayedAt].status = Unscheduled("MaxDelayExceeded")

\* a flight that had an aircraft was delayed by MAX_DELAY and stays assigned
C12_WitnessAtLimit ==
    /\ DelayOfKnown
    /\ op.shift = MAX_DELAY
    /\ DelayedAircraft # None
    /\ flights[DelayedAt].status = Delayed(MAX_DELAY)

\* the Availability windows of the aircraft the delayed flight had
DelayedWindows ==
    IF DelayedAircraft \in DOMAIN aircraft THEN aircraft[DelayedAircraft].disruptions
    ELSE <<>>

\* (original departure, new arrival) of the delayed flight overlaps a window
\* of its aircraft
C13_InMaintenance ==
    \E k \in DOMAIN DelayedWindows :
        is_overlapping(<<pre[DelayedAt].departure_time,
                         pre[DelayedAt].arrival_time + op.shift>>,
                       <<DelayedWindows[k].from, DelayedWindows[k].to>>)

\* the origin is under curfew at the original departure or the destination is
\* under curfew at the new arrival
C13_UnderCurfew ==
    \/ CurfewCovers(pre_airports, pre[DelayedAt].origin_id,
                    pre[DelayedAt].departure_time)
    \/ CurfewCovers(pre_airports, pre[DelayedAt].destination_id,
                    pre[DelayedAt].arrival_time + op.shift)

\* C13: apply_delay with 0 < shift <= MAX_DELAY on a flight of the schedule
\* moves the flight's departure and arrival by the shift in every outcome;
\* the flight ends Unscheduled(AircraftMaintenance) if (original departure,
\* new arrival) overlaps a window of its aircraft, else
\* Unscheduled(AirportCurfew) if its origin is under curfew at the original
\* departure or its destination at the new arrival, else Delayed by the
\* shift, with its aircraft, and listed in report.affected
C13_TriggerOutcome ==
    (DelayOfKnown /\ op.shift <= MAX_DELAY) =>
        LET old == pre[DelayedAt]
            moved == [old EXCEPT !.departure_time = @ + op.shift,
                                 !.arrival_time = @ + op.shift]
        IN  IF C13_InMaintenance
            THEN flights[DelayedAt] =
                     [moved EXCEPT !.status = Unscheduled("AircraftMaintenance"),
                                   !.aircraft_id = None]
            ELSE IF C13_UnderCurfew
            THEN flights[DelayedAt] =
                     [moved EXCEPT !.status = Unscheduled("AirportCurfew"),
                                   !.aircraft_id = None]
            ELSE /\ flights[DelayedAt] = [moved EXCEPT !.status = Delayed(op.shift)]
                 /\ old.id \in Range(last_report[1].affected)

\* the origin of the delayed flight was under curfew at the original
\* departure only, and the call unscheduled the flight for it
C13_Witness ==
    /\ DelayOfKnown
    /\ op.shift <= MAX_DELAY
    /\ ~C13_InMaintenance
    /\ CurfewCovers(pre_airports, pre[DelayedAt].origin_id,
                    pre[DelayedAt].departure_time)
    /\ ~CurfewCovers(pre_airports, pre[DelayedAt].origin_id,
                     pre[DelayedAt].departure_time + op.shift)
    /\ ~CurfewCovers(pre_airports, pre[DelayedAt].destination_id,
                     pre[DelayedAt].arrival_time + op.shift)
    /\ flights[DelayedAt].status = Unscheduled("AirportCurfew")

-----------------------------------------------------------------------------
(* apply_delay: location-pinned windows in the walk *)

\* window k of the delayed aircraft is pinned to an airport and lies between
\* the previous flight's arrival and the departure of the flight of step st
C14_Between(st, k) ==
    /\ DelayedWindows[k].location_id # None
    /\ DelayedWindows[k].from >= st.prev_arrival_time
    /\ DelayedWindows[k].to <= pre[st.idx].departure_time

C14_PinnedElsewhere(st) ==
    \E k \in DOMAIN DelayedWindows :
        C14_Between(st, k) /\ DelayedWindows[k].location_id # st.prev_destination_id

C14_PinnedAtPrevious(st) ==
    \E k \in DOMAIN DelayedWindows :
        C14_Between(st, k) /\ DelayedWindows[k].location_id = st.prev_destination_id

\* a window of the aircraft overlaps (departure, candidate arrival) of the
\* flight of step st
C14_Overlapped(st) ==
    \E k \in DOMAIN DelayedWindows :
        is_overlapping(<<pre[st.idx].departure_time, st.arr_time>>,
                       <<DelayedWindows[k].from, DelayedWindows[k].to>>)

\* C14: a flight the walk of apply_delay reaches with the chain unbroken
\* ends Unscheduled(AircraftMaintenance) without aircraft when the aircraft
\* has a pinned window between the previous flight's arrival and this
\* flight's departure that names another airport than the previous flight's
\* destination; when the only such windows name the previous flight's
\* destination and no window overlaps the flight, it does not end
\* Unscheduled(AircraftMaintenance)
C14_WrongAirport ==
    DelayOfKnown =>
        \A n \in DOMAIN trace :
            LET st == trace[n]
            IN  ~st.broken =>
                    /\ C14_PinnedElsewhere(st) =>
                           flights[st.idx] =
                               [pre[st.idx] EXCEPT
                                    !.status = Unscheduled("AircraftMaintenance"),
                                    !.aircraft_id = None]
                    /\ (C14_PinnedAtPrevious(st) /\ ~C14_PinnedElsewhere(st)
                           /\ ~C14_Overlapped(st))
                         => flights[st.idx].status # Unscheduled("AircraftMaintenance")

\* the walk unscheduled a flight for a window pinned elsewhere that overlaps
\* nothing
C14_Witness ==
    /\ DelayOfKnown
    /\ \E n \in DOMAIN trace :
           /\ ~trace[n].broken
           /\ C14_PinnedElsewhere(trace[n])
           /\ ~C14_Overlapped(trace[n])
           /\ flights[trace[n].idx].status = Unscheduled("AircraftMaintenance")

\* the walk met a window pinned to the previous flight's destination and left
\* the flight assigned
C14_WitnessAtPrevious ==
    /\ DelayOfKnown
    /\ \E n \in DOMAIN trace :
           /\ ~trace[n].broken
           /\ C14_PinnedAtPrevious(trace[n])
           /\ ~is_unscheduled(flights[trace[n].idx].status)

-----------------------------------------------------------------------------
(* apply_curfew *)

\* the last call was apply_curfew on an airport of the schedule
CurfewOfKnown ==
    /\ op.name = "apply_curfew"
    /\ op.airport \in DOMAIN pre_airports

\* before the call, flight i was Scheduled or Delayed on aircraft ac
C15_Flown(ac, i) ==
    /\ pre[i].aircraft_id = ac
    /\ ~is_unscheduled(pre[i].status)

\* flight i of aircraft ac touches the airport and its (departure, arrival)
\* overlaps a curfew window the airport has after the call
C15_Hit(ac, i) ==
    /\ C15_Flown(ac, i)
    /\ op.airport \in {pre[i].origin_id, pre[i].destination_id}
    /\ \E k \in DOMAIN airports[op.airport].disruptions :
           is_overlapping(<<pre[i].departure_time, pre[i].arrival_time>>,
                          <<airports[op.airport].disruptions[k].from,
                            airports[op.airport].disruptions[k].to>>)

\* the departure of the earliest-departing hit flight of aircraft ac
C15_BreakPoint(ac) ==
    LET deps == {pre[i].departure_time : i \in {j \in 1..Len(pre) : C15_Hit(ac, j)}}
    IN  CHOOSE t \in deps : \A u \in deps : t <= u

\* flight i is the first in departure order (vector order among equal
\* departures) of the flights of ac that depart at or after the break point
C15_FirstAfter(ac, i) ==
    /\ C15_Flown(ac, i)
    /\ pre[i].departure_time >= C15_BreakPoint(ac)
    /\ \A j \in 1..Len(pre) :
           (C15_Flown(ac, j) /\ pre[j].departure_time >= C15_BreakPoint(ac) /\ j # i)
           => \/ pre[j].departure_time > pre[i].departure_time
              \/ (pre[j].departure_time = pre[i].departure_time /\ j > i)

C16_CurfewOnlyUnschedules ==
    op.name = "apply_curfew" =>
        /\ Len(flights) = Len(pre)
        /\ \A i \in 1..Len(pre) :
               \/ flights[i] = pre[i]
               \/ /\ ~is_unscheduled(pre[i].status)
                  /\ is_unscheduled(flights[i].status)
                  /\ flights[i] = [pre[i] EXCEPT !.status = flights[i].status,
                                                 !.aircraft_id = flights[i].aircraft_id]
        /\ last_report[1].affected = <<>>

\* the curfew took a Delayed flight and a later flight out of the schedule
C16_Witness ==
    /\ CurfewOfKnown
    /\ \E i \in 1..Len(pre) : \E j \in 1..Len(pre) :
           /\ pre[i].status.kind = "Delayed"
           /\ flights[i].status = Unscheduled("AirportCurfew")
           /\ flights[j].status = Unscheduled("BrokenChain")
           /\ ~is_unscheduled(pre[j].status)

\* the apply_curfew call that led to this state marked flight i
\* Unscheduled(AirportCurfew)
C17_MarkedByCurfew(i) ==
    /\ op.name = "apply_curfew"
    /\ ~is_unscheduled(pre[i].status)
    /\ flights[i].status = Unscheduled("AirportCurfew")

\* C17: when assign() directly follows apply_curfew, every flight the curfew
\* call marked Unscheduled(AirportCurfew) is Unscheduled(AirportCurfew) after
\* assign()
C17_CurfewSurvivesAssign ==
    [][op'.name = "assign" =>
          \A i \in 1..Len(flights) :
              C17_MarkedByCurfew(i) => flights'[i].status = Unscheduled("AirportCurfew")]_vars

-----------------------------------------------------------------------------
(* apply_delay: calls that change nothing *)

\* C18: apply_delay with shift 0 leaves every flight and every airport as it
\* was, whether or not the flight id is in the schedule
C18_ZeroShiftNoOp ==
    (op.name = "apply_delay" /\ op.shift = 0) =>
        /\ flights = pre
        /\ airports = pre_airports

\* apply_delay with shift 0 was called on a flight that has an aircraft,
\* after an earlier call
C18_Witness ==
    /\ op.name = "apply_delay"
    /\ op.shift = 0
    /\ op.flight \in DOMAIN flights_index
    /\ pre[DelayedAt].aircraft_id # None
    /\ nops = 2

-----------------------------------------------------------------------------
(* The order of the flight vector and the reports *)

SortedByDeparture(fs) ==
    \A i \in 1..Len(fs) : \A j \in 1..Len(fs) :
        i < j => fs[i].departure_time <= fs[j].departure_time

\* C21: the flight vector is sorted by ascending departure_time after
\* Schedule::new and after every assign, apply_delay and apply_curfew
C21_SortedFlights == SortedByDeparture(flights)

\* C22: in the report of an apply_delay or apply_curfew call, first_break is
\* the first element of the unscheduled list, and it is None exactly when
\* that list is empty
C22_FirstBreak ==
    last_report # <<>> =>
        /\ (last_report[1].first_break = <<>>) = (last_report[1].unscheduled = <<>>)
        /\ last_report[1].unscheduled # <<>> =>
               last_report[1].first_break = <<last_report[1].unscheduled[1]>>

\* a call reported several unscheduled flights, the first for a reason of
\* its own
C22_Witness ==
    /\ last_report # <<>>
    /\ Len(last_report[1].unscheduled) >= 2
    /\ last_report[1].unscheduled[1][2] # "BrokenChain"
    /\ last_report[1].unscheduled[2][2] = "BrokenChain"

\* the positions in the flight vector of the ids of a list, in list order
C23_Positions(ids) == [k \in DOMAIN ids |-> flights_index[ids[k]]]

C23_Ascending(ps) ==
    \A k \in DOMAIN ps : \A m \in DOMAIN ps : k < m => ps[k] < ps[m]

C23_UnscheduledIds ==
    [k \in DOMAIN last_report[1].unscheduled |-> last_report[1].unscheduled[k][1]]

\* C23: in the report of an apply_delay call, affected lists, in the order
\* of the flight vector, exactly the flights the call changed that end
\* Delayed; unscheduled lists, in that order, the flights that end
\* Unscheduled through the call, each with the reason its status holds and
\* with every flight the call changed into Unscheduled among them; no other
\* flight changed and no id is in both lists
C23_DelayReport ==
    (op.name = "apply_delay" /\ op.shift > 0) =>
        LET affected == last_report[1].affected
            unscheduled == last_report[1].unscheduled
            changed == {i \in 1..Len(pre) : flights[i] # pre[i]}
        IN  /\ Range(affected) \subseteq DOMAIN flights_index
            /\ Range(C23_UnscheduledIds) \subseteq DOMAIN flights_index
            /\ C23_Ascending(C23_Positions(affected))
            /\ C23_Ascending(C23_Positions(C23_UnscheduledIds))
            /\ Range(C23_Positions(affected)) =
                   {i \in changed : flights[i].status.kind = "Delayed"}
            /\ \A k \in DOMAIN unscheduled :
                   LET f == flights[flights_index[unscheduled[k][1]]]
                   IN  f.status = Unscheduled(unscheduled[k][2]) /\ f.aircraft_id = None
            /\ {i \in changed : is_unscheduled(flights[i].status)}
                   \subseteq Range(C23_Positions(C23_UnscheduledIds))
            /\ Range(affected) \cap Range(C23_UnscheduledIds) = {}

\* the call delayed at least one flight and unscheduled at least two
C23_Witness ==
    /\ op.name = "apply_delay"
    /\ op.shift > 0
    /\ last_report # <<>>
    /\ Len(last_report[1].affected) >= 1
    /\ Len(last_report[1].unscheduled) >= 2

-----------------------------------------------------------------------------
(* assign: the candidate search *)

\* aircraft a has a pinned window that starts at or after its ready time,
\* ends at or before the departure of the flight examined in log entry e
\* and names another airport than its current location
C24_WrongAirport(e, a) ==
    \E k \in DOMAIN aircraft[a].disruptions :
        LET d == aircraft[a].disruptions[k]
        IN  /\ d.location_id # None
            /\ d.from >= e.current_locations[a][2]
            /\ d.to <= pre[e.idx].departure_time
            /\ d.location_id # e.current_locations[a][1]

\* C24: assign binds no flight to an aircraft that has a pinned window
\* between its ready time and the flight's departure naming another airport
\* than its current location
C24_NoWrongAirportBinding ==
    op.name = "assign" =>
        \A n \in DOMAIN trace :
            trace[n].chosen # None => ~C24_WrongAirport(trace[n], trace[n].chosen)

\* an aircraft standing at the flight's origin, free, out of maintenance and
\* with open airports, was passed over for such a window
C24_Witness ==
    /\ op.name = "assign"
    /\ \E n \in DOMAIN trace : \E a \in DOMAIN aircraft :
           LET e == trace[n]
           IN  /\ e.current_locations[a][1] = pre[e.idx].origin_id
               /\ C24_WrongAirport(e, a)
               /\ NotInMaintenance(aircraft, a, pre[e.idx])
               /\ NotBusy(a, pre[e.idx], e.busy)
               /\ AirportsOpen(airports, pre[e.idx])
               /\ e.chosen # a
               /\ flights[e.idx].aircraft_id # a

\* C25: assign changes a flight only by giving an Unscheduled flight an
\* aircraft and the status Scheduled: every other field, the times among
\* them, is as before the call, no flight becomes Delayed, and a flight it
\* does not bind keeps its Unscheduled reason
C25_AssignEffect ==
    op.name = "assign" =>
        /\ Len(flights) = Len(pre)
        /\ \A i \in 1..Len(pre) :
               \/ flights[i] = pre[i]
               \/ /\ is_unscheduled(pre[i].status)
                  /\ flights[i].aircraft_id \in DOMAIN aircraft
                  /\ flights[i] = [pre[i] EXCEPT !.status = Scheduled,
                                                 !.aircraft_id = flights[i].aircraft_id]

\* assign bound a flight at the times an earlier apply_delay had shifted it
\* to and left another flight with a reason other than Waiting
C25_Witness ==
    /\ op.name = "assign"
    /\ \E i \in 1..Len(pre) : \E j \in 1..Len(pre) :
           /\ is_unscheduled(pre[i].status)
           /\ flights[i].status = Scheduled
           /\ flights[i].departure_time # loaded[i].departure_time
           /\ is_unscheduled(flights[j].status)
           /\ flights[j].status # Unscheduled("Waiting")

\* C26: a flight that assign examines and leaves unassigned has, at that
\* moment, no aircraft whose current location is its origin and that passes
\* the four filters
C26_UnassignedOnlyWithoutCandidate ==
    op.name = "assign" =>
        \A n \in DOMAIN trace :
            flights[trace[n].idx].aircraft_id = None => QualifyingAt(trace[n]) = {}

\* C27: assign binds a flight to an aircraft only when the flight departs at
\* or after the aircraft's ready time at that moment (arrival of its last
\* assigned flight + MTT of that flight's destination, 0 when it has none)
C27_BoundAfterReady ==
    op.name = "assign" =>
        \A n \in DOMAIN trace :
            trace[n].chosen # None =>
                pre[trace[n].idx].departure_time
                    >= trace[n].current_locations[trace[n].chosen][2]

-----------------------------------------------------------------------------
(* Invariants of the assigned flights *)

\* flight f is Scheduled or Delayed on an aircraft of the fleet
C28_Assigned(f) ==
    ~is_unscheduled(f.status) /\ f.aircraft_id \in DOMAIN aircraft

\* (departure, arrival) of flight f overlaps a window of aircraft a
C28_InWindow(f, a) ==
    \E k \in DOMAIN aircraft[a].disruptions :
        is_overlapping(<<f.departure_time, f.arrival_time>>,
                       <<aircraft[a].disruptions[k].from, aircraft[a].disruptions[k].to>>)

MaintenanceFree(fs) ==
    \A i \in 1..Len(fs) : C28_Assigned(fs[i]) => ~C28_InWindow(fs[i], fs[i].aircraft_id)

\* C28: when no assigned flight of the loaded schedule overlaps a window of
\* its aircraft, none does after any sequence of calls
C28_NoMaintenanceOverlap == MaintenanceFree(loaded) => MaintenanceFree(flights)

\* apply_delay moved a flight into a window of its aircraft and took it off
\* the aircraft, which still flies another flight
C28_Witness ==
    /\ DelayOfKnown
    /\ MaintenanceFree(loaded)
    /\ DelayedAircraft \in DOMAIN aircraft
    /\ C28_InWindow(flights[DelayedAt], DelayedAircraft)
    /\ flights[DelayedAt].status = Unscheduled("AircraftMaintenance")
    /\ \E i \in 1..Len(flights) :
           C28_Assigned(flights[i]) /\ flights[i].aircraft_id = DelayedAircraft

CurfewFree(aps, fs) ==
    \A i \in 1..Len(fs) :
        ~is_unscheduled(fs[i].status) =>
            /\ ~CurfewCovers(aps, fs[i].origin_id, fs[i].departure_time)
            /\ ~CurfewCovers(aps, fs[i].destination_id, fs[i].arrival_time)

\* C29: no Scheduled or Delayed flight departs at an instant covered by a
\* curfew of its origin or arrives at an instant covered by a curfew of its
\* destination (from <= t <= to); every loaded schedule satisfies this
C29_NoCurfewedInstant == CurfewFree(airports, flights)

-----------------------------------------------------------------------------
(* apply_delay: maintenance in the walk *)

\* the candidate window of the flight of step st overlaps a window of the
\* delayed aircraft
C30_CandidateInWindow(st) ==
    \E k \in DOMAIN DelayedWindows :
        is_overlapping(<<st.dep_time, st.arr_time>>,
                       <<DelayedWindows[k].from, DelayedWindows[k].to>>)

\* C30: a flight the walk of apply_delay reaches with the chain unbroken and
\* without a wrong-airport violation ends Unscheduled(AircraftMaintenance)
\* exactly when (candidate departure, candidate arrival) overlaps a window
\* of the aircraft
C30_WalkMaintenance ==
    DelayOfKnown =>
        \A n \in DOMAIN trace :
            (~trace[n].broken /\ ~C14_PinnedElsewhere(trace[n])) =>
                ((flights[trace[n].idx].status = Unscheduled("AircraftMaintenance"))
                     <=> C30_CandidateInWindow(trace[n]))

-----------------------------------------------------------------------------
(* apply_delay: the delay limit *)

\* the walk reached the flight of step st with the chain unbroken and the
\* flight passed the maintenance, wrong-airport and curfew tests
C31_PassedChecks(st) ==
    /\ ~st.broken
    /\ ~st.is_ac_disrupted
    /\ ~st.is_at_wrong_airport
    /\ ~st.closed

\* candidate departure minus the departure before the call
C31_Displacement(st) == st.dep_time - pre[st.idx].departure_time

\* C31: a flight of the walk that passes the maintenance, wrong-airport and
\* curfew tests ends Unscheduled(MaxDelayExceeded) exactly when its candidate
\* departure is more than MAX_DELAY after its departure before the call; a
\* displacement of exactly MAX_DELAY is committed as Delayed by MAX_DELAY
C31_WalkMaxDelay ==
    DelayOfKnown =>
        \A n \in DOMAIN trace :
            C31_PassedChecks(trace[n]) =>
                /\ (flights[trace[n].idx].status = Unscheduled("MaxDelayExceeded"))
                       <=> (C31_Displacement(trace[n]) > MAX_DELAY)
                /\ C31_Displacement(trace[n]) = MAX_DELAY =>
                       flights[trace[n].idx] =
                           [pre[trace[n].idx] EXCEPT
                                !.status = Delayed(MAX_DELAY),
                                !.departure_time = trace[n].dep_time,
                                !.arrival_time = trace[n].arr_time]

\* the walk rejected a flight displaced by more than MAX_DELAY
C31_Witness ==
    /\ DelayOfKnown
    /\ \E n \in DOMAIN trace :
           /\ C31_PassedChecks(trace[n])
           /\ C31_Displacement(trace[n]) > MAX_DELAY
           /\ flights[trace[n].idx].status = Unscheduled("MaxDelayExceeded")

\* the walk committed a displacement of exactly MAX_DELAY
C31_WitnessAtLimit ==
    /\ DelayOfKnown
    /\ \E n \in DOMAIN trace :
           /\ C31_PassedChecks(trace[n])
           /\ C31_Displacement(trace[n]) = MAX_DELAY
           /\ flights[trace[n].idx].status = Delayed(MAX_DELAY)

\* C32: every Scheduled or Delayed flight departs at most MAX_DELAY minutes
\* after the departure time it was loaded with
C32_TotalDelayBounded ==
    \A i \in 1..Len(flights) :
        ~is_unscheduled(flights[i].status) =>
            flights[i].departure_time - loaded[i].departure_time <= MAX_DELAY

\* C33: the minutes of a Delayed flight are its departure_time minus the
\* departure_time it was loaded with
C33_DelayedMinutesFromLoad ==
    \A i \in 1..Len(flights) :
        flights[i].status.kind = "Delayed" =>
            flights[i].status.minutes =
                flights[i].departure_time - loaded[i].departure_time

-----------------------------------------------------------------------------
(* Frame conditions *)

\* C34: every flight has the duration it was loaded with, and no call moves
\* a flight's departure earlier than it was before the call or at load
C34_DurationAndDirection ==
    /\ Len(flights) = Len(loaded)
    /\ \A i \in 1..Len(flights) :
           /\ flights[i].arrival_time - flights[i].departure_time =
                  loaded[i].arrival_time - loaded[i].departure_time
           /\ flights[i].departure_time >= pre[i].departure_time
           /\ flights[i].departure_time >= loaded[i].departure_time

\* apply_delay moved the delayed flight and pushed a later flight of its
\* aircraft behind it
C34_Witness ==
    /\ DelayOfKnown
    /\ flights[DelayedAt].departure_time > pre[DelayedAt].departure_time
    /\ \E n \in DOMAIN trace :
           /\ trace[n].outcome = "Delayed"
           /\ flights[trace[n].idx].departure_time > pre[trace[n].idx].departure_time

\* C35: apply_delay changes only the delayed flight and the flights of its
\* aircraft at later positions of the flight vector; every other flight has
\* the times, status and aircraft_id it had before the call
C35_DelayFrame ==
    op.name = "apply_delay" =>
        \A i \in 1..Len(pre) :
            flights[i] # pre[i] =>
                IF op.flight \in DOMAIN flights_index
                THEN \/ i = DelayedAt
                     \/ /\ i > DelayedAt
                        /\ DelayedAircraft # None
                        /\ pre[i].aircraft_id = DelayedAircraft
                ELSE FALSE

\* the call changed a later flight of the delayed aircraft while a flight of
\* another aircraft stood between them in the vector
C35_Witness ==
    /\ DelayOfKnown
    /\ \E i \in 1..Len(pre) : \E j \in 1..Len(pre) :
           /\ DelayedAt < j /\ j < i
           /\ pre[i].aircraft_id = DelayedAircraft
           /\ flights[i] # pre[i]
           /\ pre[j].aircraft_id \notin {None, DelayedAircraft}
           /\ ~is_unscheduled(pre[j].status)
           /\ flights[j] = pre[j]

\* the airports after a step: the curfew list of a known airport named by
\* apply_curfew has the call's window appended, everything else is as before
C36_AirportsAfter ==
    IF op'.name = "apply_curfew" /\ op'.airport \in DOMAIN airports
    THEN airports' = [airports EXCEPT ![op'.airport].disruptions =
                                          Append(@, Curfew(op'.from, op'.to))]
    ELSE airports' = airports

\* C36: no call adds or removes a flight, an aircraft or an airport, or
\* changes a flight's id, origin or destination, an aircraft's initial
\* location or windows or an airport's MTT; a curfew list grows by exactly
\* the window of an apply_curfew call on that known airport and not otherwise
C36_Frame ==
    [][/\ aircraft' = aircraft
       /\ Len(flights') = Len(flights)
       /\ \A i \in 1..Len(flights) :
              /\ flights'[i].id = flights[i].id
              /\ flights'[i].origin_id = flights[i].origin_id
              /\ flights'[i].destination_id = flights[i].destination_id
       /\ C36_AirportsAfter]_vars

\* a second curfew window was appended to an airport's list
C36_Witness ==
    /\ CurfewOfKnown
    /\ Len(pre_airports[op.airport].disruptions) = 1
    /\ airports[op.airport].disruptions =
           Append(pre_airports[op.airport].disruptions, Curfew(op.from, op.to))

-----------------------------------------------------------------------------
(* last_report *)

\* C37: after every apply_delay or apply_curfew call last_report is present
\* and its kind is that call: the flight id and shift of the delay, or the
\* airport and window of the curfew
C37_ReportOfTheCall ==
    /\ op.name = "apply_delay" =>
           /\ last_report # <<>>
           /\ last_report[1].kind = DelayKind(op.flight, op.shift)
    /\ op.name = "apply_curfew" =>
           /\ last_report # <<>>
           /\ last_report[1].kind = CurfewKind(op.airport, op.from, op.to)

-----------------------------------------------------------------------------
(* apply_curfew: what is left standing *)

\* flight f has the airport of the call as origin or destination and its
\* (departure, arrival) overlaps a curfew window recorded at that airport
C38_UnderCurfew(f) ==
    /\ op.airport \in {f.origin_id, f.destination_id}
    /\ \E k \in DOMAIN airports[op.airport].disruptions :
           is_overlapping(<<f.departure_time, f.arrival_time>>,
                          <<airports[op.airport].disruptions[k].from,
                            airports[op.airport].disruptions[k].to>>)

-----------------------------------------------------------------------------
(* reports: BrokenChain entries *)

\* the report in last_report was built by the call that led to this state
C39_ReportOfCall ==
    /\ last_report # <<>>
    /\ \/ op.name = "apply_delay" /\ op.shift > 0
       \/ op.name = "apply_curfew"

\* the aircraft the reported flight had when the call started
C39_AircraftOf(entry) == pre[flights_index[entry[1]]].aircraft_id

\* C39: every (flight, BrokenChain) entry of the unscheduled list comes after
\* an entry with another reason for a flight of the same aircraft, and
\* first_break never has reason BrokenChain
C39_BrokenChainFollowsBreak ==
    C39_ReportOfCall =>
        LET list == last_report[1].unscheduled IN
        /\ \A k \in DOMAIN list :
               list[k][2] = "BrokenChain" =>
                   \E j \in 1..(k - 1) :
                       /\ list[j][2] # "BrokenChain"
                       /\ C39_AircraftOf(list[j]) = C39_AircraftOf(list[k])
        /\ last_report[1].first_break # <<>> =>
               last_report[1].first_break[1][2] # "BrokenChain"

C39_Witness ==
    /\ C39_ReportOfCall
    /\ last_report[1].first_break # <<>>
    /\ \E k \in DOMAIN last_report[1].unscheduled :
           last_report[1].unscheduled[k][2] = "BrokenChain"

\* the same case in a report of apply_curfew that removes flights of two
\* aircraft
C39_WitnessTwoAircraft ==
    /\ C39_ReportOfCall
    /\ op.name = "apply_curfew"
    /\ \E j, k \in DOMAIN last_report[1].unscheduled :
           /\ last_report[1].unscheduled[k][2] = "BrokenChain"
           /\ C39_AircraftOf(last_report[1].unscheduled[j])
                  # C39_AircraftOf(last_report[1].unscheduled[k])

====
